---- MODULE Spec2Model ----
(***************************************************************************)
(* Model of review-plot's object pool (src/src/client_pool.rs):            *)
(* ObjectPool::get / ObjectPool::close, the PoolHandle and PoolWaiter      *)
(* destructors and ObjectPoolInner::return_object, run by concurrent       *)
(* tasks.  Every critical section of the pool mutex is one atomic step.    *)
(***************************************************************************)
EXTENDS Integers, Sequences, FiniteSets, TLC

\* ------------------------------------------------------------------ bounds
Capacity == 2
NumTasks == 4

Workers == 1..Capacity
Tasks == 1..NumTasks

\* Queue entry of a drain waiter, Arc::new(tx.clone()) in close(); the entry of
\* a get() waiter is the id of the task whose call created the Arc.
DrainWaiter == 0

VARIABLES
    closed,      \* ObjectPoolInner.closed
    free,        \* ObjectPoolInner.free (Vec<T>)
    waiting,     \* ObjectPoolInner.waiting (VecDeque<Arc<Sender<T>>>)
    poisoned,    \* the std Mutex is poisoned: a holder of the lock panicked
    pc,          \* per task: "idle", "waiting" (suspended in recv), "holding",
                 \* "PoolClosed" (get returned Err) or "panicked"
    obj,         \* per task: PoolHandle.obj, <<>> when the task has no handle
    chan,        \* per task: buffer of the waiter's channel(1)
    cpc,         \* the close() call that set `closed`: "idle", "run", "ok",
                 \* "err" or "dropped"
    closeAgain,  \* latest close() call that did not set `closed`: "none",
                 \* "ok" or "panic"
    closeFree,   \* close(): local `free`, not yet passed to f
    remaining,   \* close(): local `remaining`
    drained,     \* close(): iterations of the second loop done
    sink,        \* close(): buffer of the channel behind the drain waiters
    rxAlive,     \* close(): local `rx` not dropped yet
    shut,        \* Workers passed to shutdown_fn, in call order
    lost         \* Workers dropped without shutdown_fn

\* One /api/reviews request (handlers.rs handle_reviews) and its ReviewIter.
VARIABLES
    pages,       \* the site: payload k carries a continuation iff k < pages
    hpc,         \* position of the request: "off", "get", "list", "next",
                 \* "send" or "end"
    hclient,     \* the request's PoolHandle `client` is alive
    listed,      \* what list_reviews returned: "no" (not yet), "ok", "err"
    iter,        \* ReviewIter: next_result and next_url, each an Option
    pending,     \* the record handed to tx.send
    out,         \* records the response channel accepted, in order
    rxOpen,      \* the response body (receiver of the channel) is alive
    fetched,     \* URLs ReviewIter::next has fetched over HTTP, in order
    yielded      \* what the calls of ReviewIter::next returned, in order

\* One call of wait_for_scrape_result (client.rs).
VARIABLES
    rpc,         \* position of the call: "off", "probe", "sleep" or "done"
    attempts,    \* what the calls of the probe f returned, in order
    sleeps,      \* how many times sleep(delay) ran
    last_error,  \* the local `last_error`, an Option
    rresult      \* what the call returned, an Option

\* The parser of recorded review payloads (client.rs).
VARIABLES
    recorded,    \* window.recordedReviewResponses: pairs of URL and payload
    parsed       \* what the last run of the parser returned, an Option

\* The construction of the pool (client_pool.rs new_client_pool).
VARIABLES
    bpc,         \* position of the call: "off", "loop", "ok" or "err"
    capacity,    \* the argument `capacity`
    objs,        \* the local Vec `objs`: the Workers built so far
    sessions     \* browser sessions open at the driver

\* The mutex around the pool's inner state and the calls that take it.
VARIABLES
    guard,       \* the task that holds the MutexGuard, 0 when unlocked
    lpc,         \* per task: the operation it runs and where it is in it
    lpoisoned    \* a holder of the guard panicked

\* One /api/search request (handlers.rs handle_search), run by task
\* SearchTask of the pool.
VARIABLES
    spc,         \* position of the handler: "off", "parse", "get",
                 \* "location", "query", "search" or "return"
    sret         \* what the handler returned, an Option

poolVars == <<closed, free, waiting, poisoned, pc, obj, chan, cpc, closeAgain,
              closeFree, remaining, drained, sink, rxAlive, shut, lost>>

reviewVars == <<pages, hpc, hclient, listed, iter, pending, out, rxOpen,
                fetched, yielded>>

retryVars == <<rpc, attempts, sleeps, last_error, rresult>>

parseVars == <<recorded, parsed>>

buildVars == <<bpc, capacity, objs, sessions>>

lockVars == <<guard, lpc, lpoisoned>>

searchVars == <<spc, sret>>

moreVars == <<buildVars, lockVars, searchVars>>

\* Everything but the pool.
appVars == <<reviewVars, retryVars, parseVars, moreVars>>

vars == <<poolVars, appVars>>

closeVars == <<cpc, closeAgain, closeFree, remaining, drained, rxAlive, shut>>

\* --------------------------------------------------------------- helpers
Range(s) == {s[i] : i \in 1..Len(s)}

Max(a, b) == IF a >= b THEN a ELSE b

Front(s) == SubSeq(s, 1, Len(s) - 1)

Last(s) == s[Len(s)]

\* VecDeque::remove(i) of the first entry that is ptr_eq to the waiter's tx.
RECURSIVE RemoveFirst(_, _)
RemoveFirst(q, e) ==
    IF q = <<>> THEN <<>>
    ELSE IF Head(q) = e THEN Tail(q)
    ELSE <<Head(q)>> \o RemoveFirst(Tail(q), e)

\* The part of the state return_object and try_send work on.
PoolState == [free |-> free, waiting |-> waiting, chan |-> chan, sink |-> sink,
              poisoned |-> poisoned, lost |-> lost]

\* Capacity of the drain channel: channel(remaining.max(1)).
SinkCapacity == Max(remaining, 1)

\* Sender::try_send succeeds unless the buffer is full or the receiver is gone.
try_send_ok(s, w) ==
    IF w = DrainWaiter
    THEN rxAlive /\ Len(s.sink) < SinkCapacity
    ELSE pc[w] = "waiting" /\ Len(s.chan[w]) < 1

\* The unwrap() of a failed try_send panics with the lock held: the mutex is
\* poisoned and the object inside the error is dropped.
Panic(s, o) == [s EXCEPT !.poisoned = TRUE, !.lost = @ \cup {o}]

\* Mutant of try_send: the drain channel hands out the newest object first.
try_send_front(s, w, o) ==
    IF w = DrainWaiter
    THEN [s EXCEPT !.sink = <<o>> \o @]
    ELSE [s EXCEPT !.chan[w] = Append(@, o)]

try_send(s, w, o) ==
    IF w = DrainWaiter
    THEN [s EXCEPT !.sink = Append(@, o)]
    ELSE [s EXCEPT !.chan[w] = Append(@, o)]

\* Mutant of return_object: pop_back() where the code has pop_front().
return_object_lifo(s, o) ==
    IF s.waiting # <<>>
    THEN LET w == Last(s.waiting)
             s1 == [s EXCEPT !.waiting = Front(@)]
         IN  IF try_send_ok(s1, w) THEN try_send(s1, w, o) ELSE Panic(s1, o)
    ELSE [s EXCEPT !.free = Append(@, o)]

\* Mutant of return_object: the `else` is missing, so an object sent to a
\* waiter is pushed on the free Vec as well.
return_object_no_else(s, o) ==
    LET s0 == [s EXCEPT !.free = Append(@, o)]
    IN  IF s.waiting # <<>>
        THEN LET w == Head(s.waiting)
                 s1 == [s0 EXCEPT !.waiting = Tail(@)]
             IN  IF try_send_ok(s1, w) THEN try_send(s1, w, o) ELSE Panic(s1, o)
        ELSE s0

\* Mutant of return_object: the queue is never looked at.
return_object_free_only(s, o) == [s EXCEPT !.free = Append(@, o)]

pop_front(q) == Tail(q)

\* Mutant of return_object: a closed pool takes a returned object back into
\* its free Vec.
return_object_refill(s, o) ==
    IF s.waiting # <<>> /\ ~closed
    THEN LET w == Head(s.waiting)
             s1 == [s EXCEPT !.waiting = pop_front(@)]
         IN  IF try_send_ok(s1, w) THEN try_send(s1, w, o) ELSE Panic(s1, o)
    ELSE [s EXCEPT !.free = Append(@, o)]

return_object(s, o) ==
    IF s.waiting # <<>>
    THEN LET w == Head(s.waiting)
             s1 == [s EXCEPT !.waiting = pop_front(@)]
         IN  IF try_send_ok(s1, w) THEN try_send(s1, w, o) ELSE Panic(s1, o)
    ELSE [s EXCEPT !.free = Append(@, o)]

SetPool(s) ==
    /\ free' = s.free
    /\ waiting' = s.waiting
    /\ chan' = s.chan
    /\ sink' = s.sink
    /\ poisoned' = s.poisoned
    /\ lost' = s.lost

\* ------------------------------------------------------------------ Init
\* No reviews request is running.
ReviewIdle ==
    /\ pages = 0
    /\ hpc = "off"
    /\ hclient = FALSE
    /\ listed = "no"
    /\ iter = [next_result |-> <<>>, next_url |-> <<>>]
    /\ pending = <<>>
    /\ out = <<>>
    /\ rxOpen = FALSE
    /\ fetched = <<>>
    /\ yielded = <<>>

\* No retry wrapper is running.
RetryIdle ==
    /\ rpc = "off"
    /\ attempts = <<>>
    /\ sleeps = 0
    /\ last_error = <<>>
    /\ rresult = <<>>

\* No payload was recorded or parsed.
ParseIdle ==
    /\ recorded = <<>>
    /\ parsed = <<>>

\* The pool is not being built.
BuildIdle ==
    /\ bpc = "off"
    /\ capacity = 0
    /\ objs = <<>>
    /\ sessions = {}

\* The mutex is not followed.
LockIdle ==
    /\ guard = 0
    /\ lpc = <<>>
    /\ lpoisoned = FALSE

\* No search request is running.
SearchIdle ==
    /\ spc = "off"
    /\ sret = <<>>

MoreIdle == BuildIdle /\ LockIdle /\ SearchIdle

AppIdle == ReviewIdle /\ RetryIdle /\ ParseIdle /\ MoreIdle

\* The pool as new_client_pool builds it.
PoolInit ==
    /\ closed = FALSE
    /\ free = [i \in 1..Capacity |-> i]
    /\ waiting = <<>>
    /\ poisoned = FALSE
    /\ pc = [t \in Tasks |-> "idle"]
    /\ obj = [t \in Tasks |-> <<>>]
    /\ chan = [t \in Tasks |-> <<>>]
    /\ cpc = "idle"
    /\ closeAgain = "none"
    /\ closeFree = <<>>
    /\ remaining = 0
    /\ drained = 0
    /\ sink = <<>>
    /\ rxAlive = FALSE
    /\ shut = <<>>
    /\ lost = {}

Init == PoolInit /\ AppIdle

\* ------------------------------------------------------- ObjectPool::get
\* Mutant of free_pop: last() where the code has pop().
free_pop_peek(f) == f

\* What inner.free.pop() leaves in the Vec.
free_pop(f) == Front(f)

\* The locked block of get(): closed check, free.pop(), waiting.push_back().
\* lock().unwrap() panics on a poisoned mutex.
get(t) ==
    /\ UNCHANGED appVars
    /\ pc[t] = "idle"
    /\ IF poisoned
       THEN /\ pc' = [pc EXCEPT ![t] = "panicked"]
            /\ UNCHANGED <<free, waiting, obj>>
       ELSE IF closed
       THEN /\ pc' = [pc EXCEPT ![t] = "PoolClosed"]
            /\ UNCHANGED <<free, waiting, obj>>
       ELSE IF free # <<>>
       THEN /\ obj' = [obj EXCEPT ![t] = <<Last(free)>>]
            /\ free' = free_pop(free)
            /\ pc' = [pc EXCEPT ![t] = "holding"]
            /\ UNCHANGED waiting
       ELSE /\ waiting' = Append(waiting, t)
            /\ pc' = [pc EXCEPT ![t] = "waiting"]
            /\ UNCHANGED <<free, obj>>
    /\ UNCHANGED <<closed, poisoned, chan, sink, lost>>
    /\ UNCHANGED closeVars

\* Senders of the waiter's channel that are alive: the PoolWaiter's own tx
\* and every clone of the Arc still in the queue.
SenderCount(t) == 1 + Cardinality({i \in 1..Len(waiting) : waiting[i] = t})

\* Receiver::recv: the buffered object, None once the buffer is empty and no
\* sender is left, pending otherwise.
rx_recv(t) ==
    IF chan[t] # <<>> THEN "obj"
    ELSE IF SenderCount(t) = 0 THEN "none"
    ELSE "pending"

\* PoolWaiter::recv resumes: Ok(PoolHandle) or Err(PoolClosed).
recv(t) ==
    /\ UNCHANGED appVars
    /\ pc[t] = "waiting"
    /\ rx_recv(t) # "pending"
    /\ IF rx_recv(t) = "obj"
       THEN /\ obj' = [obj EXCEPT ![t] = <<Head(chan[t])>>]
            /\ chan' = [chan EXCEPT ![t] = <<>>]
            /\ pc' = [pc EXCEPT ![t] = "holding"]
       ELSE /\ pc' = [pc EXCEPT ![t] = "PoolClosed"]
            /\ UNCHANGED <<obj, chan>>
    /\ UNCHANGED <<closed, free, waiting, poisoned, sink, lost>>
    /\ UNCHANGED closeVars

\* ---------------------------------------------- impl Drop for PoolHandle
\* take(&mut self.obj), lock().unwrap(), return_object(obj).  On a poisoned
\* mutex the unwrap panics and the taken object is dropped.
drop_handle(t) ==
    /\ UNCHANGED appVars
    /\ pc[t] = "holding"
    /\ LET o == obj[t][1]
       IN  IF poisoned
           THEN /\ lost' = lost \cup {o}
                /\ pc' = [pc EXCEPT ![t] = "panicked"]
                /\ UNCHANGED <<free, waiting, chan, sink, poisoned>>
           ELSE LET s == return_object(PoolState, o)
                IN  /\ SetPool(s)
                    /\ pc' = [pc EXCEPT ![t] = IF s.poisoned THEN "panicked"
                                               ELSE "idle"]
    /\ obj' = [obj EXCEPT ![t] = <<>>]
    /\ UNCHANGED closed
    /\ UNCHANGED closeVars

\* ---------------------------------------------- impl Drop for PoolWaiter
\* Mutant of waiter_drop: the try_recv is forgotten, a buffered object is
\* dropped with rx.
waiter_drop_forget(s, t) ==
    [s EXCEPT !.waiting = RemoveFirst(@, t),
              !.chan[t] = <<>>,
              !.lost = @ \cup Range(s.chan[t])]

\* The locked part: unlink the waiter's Arc, then try_recv and give back an
\* object that was sent but never received.
waiter_drop(s, t) ==
    LET s1 == [s EXCEPT !.waiting = RemoveFirst(@, t)]
    IN  IF s1.chan[t] # <<>>
        THEN return_object([s1 EXCEPT !.chan[t] = <<>>], Head(s1.chan[t]))
        ELSE s1

\* The get() future is dropped while suspended in recv (rx is still Some).
drop_waiter(t) ==
    /\ UNCHANGED appVars
    /\ pc[t] = "waiting"
    /\ IF poisoned
       THEN /\ lost' = lost \cup Range(chan[t])
            /\ chan' = [chan EXCEPT ![t] = <<>>]
            /\ pc' = [pc EXCEPT ![t] = "panicked"]
            /\ UNCHANGED <<free, waiting, sink, poisoned>>
       ELSE LET s == waiter_drop(PoolState, t)
            IN  /\ SetPool(s)
                /\ pc' = [pc EXCEPT ![t] = IF s.poisoned THEN "panicked"
                                           ELSE "idle"]
    /\ UNCHANGED <<closed, obj>>
    /\ UNCHANGED closeVars

\* ----------------------------------------------------- ObjectPool::close
\* Mutant of Remaining: one drain waiter too few.
RemainingOffByOne(f) == Max(Capacity - Len(f) - 1, 0)

\* Mutant of Remaining: free.len() is read after the swap, when it is 0.
RemainingAfterSwap(f) == Capacity

\* remaining = inner.capacity - free.len()
Remaining(f) == Capacity - Len(f)

\* The locked block of close().  A call that finds the pool closed returns
\* Ok(()) at once; the first call sets closed, swaps out the free Vec, clears
\* the queue and installs `remaining` drain waiters.
close ==
    /\ UNCHANGED appVars
    /\ IF poisoned
       THEN /\ closeAgain' = "panic"
            /\ UNCHANGED <<closed, free, waiting, sink, cpc, closeFree,
                           remaining, drained, rxAlive>>
       ELSE IF closed
       THEN /\ closeAgain' = "ok"
            /\ UNCHANGED <<closed, free, waiting, sink, cpc, closeFree,
                           remaining, drained, rxAlive>>
       ELSE /\ closed' = TRUE
            /\ closeFree' = free
            /\ free' = <<>>
            /\ remaining' = Remaining(free)
            /\ waiting' = [i \in 1..Remaining(free) |-> DrainWaiter]
            /\ sink' = <<>>
            /\ rxAlive' = TRUE
            /\ drained' = 0
            /\ cpc' = "run"
            /\ UNCHANGED closeAgain
    /\ UNCHANGED <<poisoned, pc, obj, chan, shut, lost>>

\* close() is left through `?` or its future is dropped: its locals are
\* dropped, the Workers not yet passed to f with them, and rx with whatever
\* the sink still buffers.
CloseLeave(how, freeLeft, sinkLeft) ==
    /\ cpc' = how
    /\ lost' = lost \cup Range(freeLeft) \cup Range(sinkLeft)
    /\ rxAlive' = FALSE

\* `for client in free { f(client).await?; }`: one iteration.
close_free ==
    /\ UNCHANGED appVars
    /\ cpc = "run"
    /\ closeFree # <<>>
    /\ shut' = Append(shut, Head(closeFree))
    /\ closeFree' = Tail(closeFree)
    /\ \E ok \in BOOLEAN :
        IF ok
        THEN UNCHANGED <<cpc, lost, rxAlive>>
        ELSE CloseLeave("err", Tail(closeFree), sink)
    /\ UNCHANGED <<closed, free, waiting, poisoned, pc, obj, chan, closeAgain,
                   remaining, drained, sink>>

\* `for _ in 0..remaining { f(rx.recv().await.unwrap()).await?; }`: one
\* iteration, resumed when the sink holds an object.
close_drain ==
    /\ UNCHANGED appVars
    /\ cpc = "run"
    /\ closeFree = <<>>
    /\ drained < remaining
    /\ sink # <<>>
    /\ shut' = Append(shut, Head(sink))
    /\ sink' = Tail(sink)
    /\ drained' = drained + 1
    /\ \E ok \in BOOLEAN :
        IF ok
        THEN UNCHANGED <<cpc, lost, rxAlive>>
        ELSE CloseLeave("err", closeFree, Tail(sink))
    /\ UNCHANGED <<closed, free, waiting, poisoned, pc, obj, chan, closeAgain,
                   closeFree, remaining>>

\* Both loops are over: Ok(()).
close_return ==
    /\ UNCHANGED appVars
    /\ cpc = "run"
    /\ closeFree = <<>>
    /\ drained = remaining
    /\ CloseLeave("ok", closeFree, sink)
    /\ UNCHANGED <<closed, free, waiting, poisoned, pc, obj, chan, closeAgain,
                   closeFree, remaining, drained, sink, shut>>

\* The close() future is dropped at one of its awaits.
close_cancel ==
    /\ UNCHANGED appVars
    /\ cpc = "run"
    /\ closeFree # <<>> \/ drained < remaining
    /\ CloseLeave("dropped", closeFree, sink)
    /\ UNCHANGED <<closed, free, waiting, poisoned, pc, obj, chan, closeAgain,
                   closeFree, remaining, drained, sink, shut>>

\* --------------------------------------------------------- specifications
TaskStep ==
    \/ \E t \in Tasks : get(t)
    \/ \E t \in Tasks : recv(t)
    \/ \E t \in Tasks : drop_handle(t)
    \/ \E t \in Tasks : drop_waiter(t)

CloseStep ==
    \/ close
    \/ close_free
    \/ close_drain
    \/ close_return
    \/ close_cancel

Next == TaskStep \/ CloseStep

Spec == Init /\ [][Next]_vars

\* A woken waiter is polled, a lease is dropped in the end (handlers finish),
\* and close() keeps running while f returns.
TaskFairness ==
    \A t \in Tasks : WF_vars(recv(t)) /\ WF_vars(drop_handle(t))

FairSpec ==
    /\ Spec
    /\ TaskFairness
    /\ WF_vars(close_free) /\ WF_vars(close_drain) /\ WF_vars(close_return)

\* The pool is never closed: only get(), recv and the two destructors run.
OpenSpec == Init /\ [][TaskStep]_vars /\ TaskFairness

\* ------------------------------------------------------------------ claims
Holders == {t \in Tasks : obj[t] # <<>>}

InTransit == {t \in Tasks : chan[t] # <<>>}

\* C1: no Worker is owned by two PoolHandles at once, and at most Capacity
\* Workers (and handles) are held, whatever get(), lease drops, waiter
\* cancellations and close() interleave.
ExclusiveLease ==
    /\ \A t1, t2 \in Holders : obj[t1] = obj[t2] => t1 = t2
    /\ \A t \in Holders : obj[t][1] \in Workers
    /\ Cardinality(Holders) <= Capacity

ExclusiveLeaseWitness ==
    /\ Cardinality(Holders) = Capacity
    /\ Len(waiting) >= 2

\* C2 as stated: while the pool is not closed, |free| + |held| = capacity.
FreePlusHeldIsCapacity ==
    ~closed => Len(free) + Cardinality(Holders) = Capacity

\* C2 amended: while the pool is not closed, the Workers in the free Vec, those
\* held by handles and those sent to a waiter's channel but not yet received
\* add up to capacity.
FreeHeldInTransitIsCapacity ==
    ~closed =>
        Len(free) + Cardinality(Holders) + Cardinality(InTransit) = Capacity

InTransitWitness ==
    /\ ~closed
    /\ InTransit # {}
    /\ Holders # {}

\* A step in which task t's suspended get() is dropped.
CancelStep(t) == pc[t] = "waiting" /\ pc'[t] \in {"idle", "panicked"}

\* Worker o is in the free Vec or has been sent to a waiter (or the sink).
InPool(o) ==
    \/ o \in Range(free)
    \/ o \in Range(sink)
    \/ \E u \in Tasks : o \in Range(chan[u])

\* C3: when a suspended get() is cancelled the waiter leaves the queue in the
\* same locked step, a Worker already sent to it goes back through
\* return_object (to the next waiter or the free Vec), and no Worker is lost.
CancelReturnsWorker ==
    [][\A t \in Tasks : CancelStep(t) =>
          /\ t \notin Range(waiting')
          /\ chan'[t] = <<>>
          /\ \A o \in Range(chan[t]) : InPool(o)'
          /\ lost' = lost]_vars

\* C4: waiters are served in queue order: a waiter is sent a Worker only when
\* it is the head of the queue, so no later waiter is served before an earlier
\* one, and a Worker released while get() waiters queue goes to the head.
FifoWaiters ==
    [][/\ \A i, j \in 1..Len(waiting) :
            (i < j /\ waiting[j] \in Tasks) => chan'[waiting[j]] = <<>>
       /\ \A t \in Tasks :
            (pc[t] = "holding" /\ pc'[t] # "holding" /\ waiting # <<>>
                /\ Head(waiting) \in Tasks)
            => chan'[Head(waiting)] = obj[t]]_vars

FifoWitness ==
    \E a, b \in Tasks :
        /\ chan[a] # <<>>
        /\ b \in Range(waiting)

\* The step hands Worker o to queue entry w.
HandsTo(w, o) ==
    IF w = DrainWaiter THEN sink' = Append(sink, o) ELSE chan'[w] = <<o>>

\* C5: a lease dropped while the queue is non-empty hands its Worker to the
\* head waiter in the same step and leaves the free Vec alone; dropped while
\* the queue is empty it pushes the Worker on the free Vec.
DropHandsToHead ==
    [][\A t \in Tasks : (pc[t] = "holding" /\ pc'[t] # "holding") =>
          IF waiting # <<>>
          THEN /\ HandsTo(Head(waiting), obj[t][1])
               /\ waiting' = Tail(waiting)
               /\ free' = free
          ELSE free' = Append(free, obj[t][1])]_vars

\* C6: a get() that starts once closed is set returns Err(PoolClosed), takes
\* nothing from the free Vec and enqueues no waiter.
GetAfterCloseFails ==
    [][\A t \in Tasks : (closed /\ pc[t] = "idle" /\ pc'[t] # "idle") =>
          /\ pc'[t] = "PoolClosed"
          /\ obj'[t] = <<>>
          /\ free' = free
          /\ waiting' = waiting]_vars

\* C7: every get() call completes; a waiter that close() removed from the
\* queue leaves its suspended recv (with Err(PoolClosed)).
GetCompletes ==
    \A t \in Tasks : (pc[t] = "waiting") ~> (pc[t] # "waiting")

\* C8: in a pool that is never closed, with every lease dropped in the end, a
\* suspended get() whose caller does not cancel it returns a handle ("idle" is
\* reached from "waiting" only by the caller's own cancellation).
NoStarvation ==
    \A t \in Tasks : (pc[t] = "waiting") ~> (pc[t] \in {"holding", "idle"})

NoStarvationWitness ==
    \E t \in Tasks :
        /\ pc[t] = "holding"
        /\ Len(waiting) >= 2
        /\ InTransit # {}

AllShutOnce == Len(shut) = Capacity /\ Range(shut) = Workers

ShutdownOnlyReclaimed ==
    /\ \A i \in 1..Len(shut) :
          /\ \A t \in Tasks : shut[i] \notin Range(obj[t]) \cup Range(chan[t])
          /\ \A j \in 1..Len(shut) : shut[i] = shut[j] => i = j

ShutdownOnlyReclaimedWitness ==
    /\ drained >= 1
    /\ Holders # {}

\* Workers that are out of the pool: held by a handle or sent to a waiter.
Outstanding == Cardinality(Holders) + Cardinality(InTransit)

\* C11: while close() runs, the drain waiters still queued are as many as the
\* Workers still to flow through return_object (held or in a waiter's
\* channel), and those plus the ones already sunk add up to `remaining`; so
\* with every lease dropped in the end close() returns, unless f fails or the
\* close() future is dropped.
CloseReturns ==
    /\ [](cpc = "run" =>
            /\ Len(waiting) = Outstanding
            /\ Outstanding + Len(sink) + drained = remaining
            /\ \A i \in 1..Len(waiting) : waiting[i] = DrainWaiter)
    /\ (cpc = "run") ~> (cpc \in {"ok", "err", "dropped"})

CloseReturnsWitness ==
    /\ cpc = "run"
    /\ InTransit # {}
    /\ \E t \in Tasks : pc[t] = "waiting" /\ chan[t] = <<>>

\* ================================================================ reviews
\* The longest chain of continuation payloads a site serves.
MaxPages == 3

\* The payload the site serves as page k of a chain of n continuations: its
\* reviews, and the continuation URL the parser gives it (page k + 1), absent
\* on the last page.
Page(n, k) == [reviews |-> k, next_url |-> IF k < n THEN <<k + 1>> ELSE <<>>]

\* What ReviewIter::next returns.
SomeBatch(r) == [kind |-> "batch", n |-> r]
NoBatch == [kind |-> "none", n |-> 0]
NextErr == [kind |-> "err", n |-> 0]

\* The lines of the response body.
BatchRecord(r) == [kind |-> "batch", n |-> r]
ErrorRecord == [kind |-> "error", n |-> 0]

\* ReviewIter::new: the first payload is buffered, no URL yet.
ReviewIter_new(first) == [next_result |-> <<first>>, next_url |-> <<>>]

\* A next() that keeps the URL it fetched instead of the parsed continuation.
next_keep_url(self, resp) ==
    IF Len(self.next_result) > 0
    THEN [iter  |-> [next_result |-> <<>>,
                     next_url |-> self.next_result[1].next_url],
          ret   |-> SomeBatch(self.next_result[1].reviews),
          fetch |-> <<>>]
    ELSE IF Len(self.next_url) > 0
    THEN IF Len(resp) = 0
         THEN [iter  |-> [next_result |-> <<>>, next_url |-> <<>>],
               ret   |-> NextErr,
               fetch |-> self.next_url]
         ELSE [iter  |-> [next_result |-> <<>>, next_url |-> self.next_url],
               ret   |-> SomeBatch(resp[1].reviews),
               fetch |-> self.next_url]
    ELSE [iter |-> self, ret |-> NoBatch, fetch |-> <<>>]

\* A next() that puts the URL back when its fetch or parse failed.
next_retry(self, resp) ==
    IF Len(self.next_result) > 0
    THEN [iter  |-> [next_result |-> <<>>,
                     next_url |-> self.next_result[1].next_url],
          ret   |-> SomeBatch(self.next_result[1].reviews),
          fetch |-> <<>>]
    ELSE IF Len(self.next_url) > 0
    THEN IF Len(resp) = 0
         THEN [iter  |-> [next_result |-> <<>>, next_url |-> self.next_url],
               ret   |-> NextErr,
               fetch |-> self.next_url]
         ELSE [iter  |-> [next_result |-> <<>>,
                          next_url |-> resp[1].next_url],
               ret   |-> SomeBatch(resp[1].reviews),
               fetch |-> self.next_url]
    ELSE [iter |-> self, ret |-> NoBatch, fetch |-> <<>>]

\* ReviewIter::next.  resp is what fetching and parsing the continuation URL
\* gives when the call fetches: <<payload>>, or <<>> for a failure.  Both
\* Options are taken, so a failed fetch leaves the iterator empty.
next(self, resp) ==
    IF Len(self.next_result) > 0
    THEN [iter  |-> [next_result |-> <<>>,
                     next_url |-> self.next_result[1].next_url],
          ret   |-> SomeBatch(self.next_result[1].reviews),
          fetch |-> <<>>]
    ELSE IF Len(self.next_url) > 0
    THEN IF Len(resp) = 0
         THEN [iter  |-> [next_result |-> <<>>, next_url |-> <<>>],
               ret   |-> NextErr,
               fetch |-> self.next_url]
         ELSE [iter  |-> [next_result |-> <<>>,
                          next_url |-> resp[1].next_url],
               ret   |-> SomeBatch(resp[1].reviews),
               fetch |-> self.next_url]
    ELSE [iter |-> self, ret |-> NoBatch, fetch |-> <<>>]

\* An error arm that returns without writing the error record.
after_next_swallow(ret) == IF ret.kind = "batch" THEN "send" ELSE "end"

\* The arms of `match it.next().await`: a batch and an error are sent, None
\* returns.
after_next(ret) == IF ret.kind = "none" THEN "end" ELSE "send"

\* The record an arm hands to tx.send.
record_of(ret) ==
    IF ret.kind = "batch" THEN <<BatchRecord(ret.n)>>
    ELSE IF ret.kind = "err" THEN <<ErrorRecord>>
    ELSE <<>>

\* A task that sends again when the send failed.
after_send_again(kind, ok) ==
    IF ~ok THEN "send" ELSE IF kind = "batch" THEN "next" ELSE "end"

\* Where the spawned task goes after tx.send: the loop goes on after a batch
\* that was accepted; a failed send of a batch returns, and both error arms
\* end whatever the send gave.
after_send(kind, ok) == IF kind = "batch" /\ ok THEN "next" ELSE "end"

\* `client` is moved into the spawned block and dropped when the block ends.
client_alive(h, to) == h /\ to # "end"

ReviewInit ==
    /\ pages \in 0..MaxPages
    /\ hpc = "get"
    /\ hclient = FALSE
    /\ listed = "no"
    /\ iter = [next_result |-> <<>>, next_url |-> <<>>]
    /\ pending = <<>>
    /\ out = <<>>
    /\ rxOpen = FALSE
    /\ fetched = <<>>
    /\ yielded = <<>>

\* pool.get().await?, then the channel and the spawn; PoolClosed returns
\* before either.
h_get ==
    /\ UNCHANGED <<retryVars, parseVars, moreVars>>
    /\ hpc = "get"
    /\ \E ok \in BOOLEAN :
          /\ hpc' = IF ok THEN "list" ELSE "end"
          /\ hclient' = ok
          /\ rxOpen' = ok
    /\ UNCHANGED <<pages, listed, iter, pending, out, fetched, yielded>>
    /\ UNCHANGED poolVars

\* client.list_reviews(&url, &location).await
h_list ==
    /\ UNCHANGED <<retryVars, parseVars, moreVars>>
    /\ hpc = "list"
    /\ \E ok \in BOOLEAN :
          IF ok
          THEN /\ listed' = "ok"
               /\ iter' = ReviewIter_new(Page(pages, 0))
               /\ pending' = pending
               /\ hpc' = "next"
          ELSE /\ listed' = "err"
               /\ iter' = iter
               /\ pending' = <<ErrorRecord>>
               /\ hpc' = "send"
    /\ UNCHANGED <<pages, hclient, out, rxOpen, fetched, yielded>>
    /\ UNCHANGED poolVars

\* it.next().await and the match on its result.
h_next ==
    /\ UNCHANGED <<retryVars, parseVars, moreVars>>
    /\ hpc = "next"
    /\ \E resp \in IF Len(iter.next_result) = 0 /\ Len(iter.next_url) > 0
                   THEN {<<>>, <<Page(pages, iter.next_url[1])>>}
                   ELSE {<<>>} :
          LET r == next(iter, resp) IN
          /\ iter' = r.iter
          /\ yielded' = Append(yielded, r.ret)
          /\ fetched' = fetched \o r.fetch
          /\ pending' = record_of(r.ret)
          /\ hpc' = after_next(r.ret)
          /\ hclient' = client_alive(hclient, after_next(r.ret))
    /\ UNCHANGED <<pages, listed, out, rxOpen>>
    /\ UNCHANGED poolVars

\* tx.send(..).await: accepted while the response body is alive.
h_send ==
    /\ UNCHANGED <<retryVars, parseVars, moreVars>>
    /\ hpc = "send"
    /\ out' = IF rxOpen THEN Append(out, pending[1]) ELSE out
    /\ pending' = <<>>
    /\ hpc' = after_send(pending[1].kind, rxOpen)
    /\ hclient' = client_alive(hclient, after_send(pending[1].kind, rxOpen))
    /\ UNCHANGED <<pages, listed, iter, rxOpen, fetched, yielded>>
    /\ UNCHANGED poolVars

\* The HTTP client goes away and the response body is dropped.
h_disconnect ==
    /\ UNCHANGED <<retryVars, parseVars, moreVars>>
    /\ rxOpen
    /\ hpc \in {"list", "next", "send"}
    /\ rxOpen' = FALSE
    /\ UNCHANGED <<pages, hpc, hclient, listed, iter, pending, out, fetched,
                   yielded>>
    /\ UNCHANGED poolVars

ReviewNext == h_get \/ h_list \/ h_next \/ h_send \/ h_disconnect

\* The spawned task is scheduled; each of its awaits returns.
ReviewFairness ==
    /\ WF_vars(h_list)
    /\ WF_vars(h_next)
    /\ WF_vars(h_send)

\* A reviews request arrives at a fresh pool.
InitReview == PoolInit /\ ReviewInit /\ RetryIdle /\ ParseIdle /\ MoreIdle

ReviewSpec == InitReview /\ [][ReviewNext]_vars /\ ReviewFairness

\* C12: once the first batch was delivered the request holds no lease.
NoLeaseAfterFirstBatch ==
    (Len(out) > 0 /\ out[1].kind = "batch") => ~hclient

\* C13: the lease of a reviews request is released in the end, whichever way
\* the stream ends.
LeaseReleased == hclient ~> ~hclient

\* The send of a batch failed on a dropped response body and the lease is back.
LeaseReleasedWitness ==
    /\ hpc = "end"
    /\ ~hclient
    /\ ~rxOpen
    /\ listed = "ok"
    /\ Len(yielded) > 0
    /\ Last(yielded).kind = "batch"
    /\ Len(out) < Len(yielded)

\* C14: the first call yields page 0 without a fetch; every later call that
\* yields fetches the continuation URL of the batch before it; None comes
\* exactly after the batch that has no continuation, so a chain of n
\* continuations gives n + 1 batches in order.
IterContract ==
    /\ Len(yielded) >= 1 => yielded[1] = SomeBatch(0)
    /\ Len(yielded) <= 1 => fetched = <<>>
    /\ \A i \in 1..Len(yielded) :
          yielded[i].kind = "batch" => yielded[i].n = i - 1
    /\ Len(fetched) =
          Cardinality({i \in 2..Len(yielded) : yielded[i].kind # "none"})
    /\ \A j \in 1..Len(fetched) :
          /\ j - 1 < pages
          /\ fetched[j] = Page(pages, j - 1).next_url[1]
    /\ \A i \in 1..Len(yielded) :
          yielded[i].kind = "none" =>
              /\ i = pages + 2
              /\ yielded[i - 1] = SomeBatch(pages)
    /\ \A i \in 2..Len(yielded) :
          (yielded[i - 1].kind = "batch"
              /\ Page(pages, yielded[i - 1].n).next_url = <<>>)
          => yielded[i].kind = "none"

IterContractWitness ==
    /\ pages = MaxPages
    /\ Len(yielded) = MaxPages + 2
    /\ Last(yielded).kind = "none"
    /\ Len(fetched) = MaxPages

\* list_reviews or the last next() failed.
Failed ==
    \/ listed = "err"
    \/ Len(yielded) > 0 /\ Last(yielded).kind = "err"

\* C15: nothing is written after an error record, the task ends with it, and
\* an error leaves its record whenever the response body is still there.
ErrorEndsResponse ==
    /\ \A i \in 1..Len(out) : out[i].kind = "error" => i = Len(out)
    /\ (Len(out) > 0 /\ Last(out).kind = "error") => hpc = "end"
    /\ (Failed /\ hpc = "end" /\ rxOpen) =>
          (Len(out) > 0 /\ Last(out).kind = "error")

ErrorEndsResponseWitness ==
    /\ hpc = "end"
    /\ Len(out) >= 2
    /\ Last(out).kind = "error"
    /\ Last(yielded).kind = "err"

\* ========================================================== retry wrapper
\* How many distinct recoverable errors a probe can return.
NumRecoverable == 2

\* The polling interval of both call sites, in seconds.
PollSeconds == 1

\* One try too many.
num_tries_more(secs) == (10 \div secs) + 1

\* num_tries = (10.0 / delay.as_secs_f32().ceil()) as i32, for whole seconds.
num_tries(secs) == 10 \div secs

\* The variants of ScrapeError the catch-all arm takes.
RecoverableKinds == <<"ParseError", "JsonError", "ReqwestError", "TimeoutError">>

Recoverable(i) ==
    [kind |-> RecoverableKinds[((i - 1) % Len(RecoverableKinds)) + 1], id |-> i]

\* What one call of the probe can return: a value, a stale-reference driver
\* error, another driver error, a fatal parse error, or a recoverable error.
Outcomes ==
    {[kind |-> k, id |-> 0] : k \in {"Ok", "Stale", "WebDriverError",
                                     "FatalParseError"}}
        \cup {Recoverable(i) : i \in 1..NumRecoverable}

\* Return values of the wrapper: the probe's value or error as it came, or the
\* TimeoutError with its inner cause.
Returned(o) == [how |-> "returned", what |-> <<o>>]
timeout(inner) == [how |-> "timeout", what |-> inner]

\* A match that lets a fatal parse error fall to the catch-all arm.
match_arm_no_fatal(o, last) ==
    IF o.kind = "Ok" THEN [ret |-> <<Returned(o)>>, last_error |-> last]
    ELSE IF o.kind = "Stale" THEN [ret |-> <<>>, last_error |-> last]
    ELSE IF o.kind = "WebDriverError"
    THEN [ret |-> <<Returned(o)>>, last_error |-> last]
    ELSE [ret |-> <<>>, last_error |-> <<o>>]

\* A match whose stale-reference arm forgets the remembered error.
match_arm_stale_clears(o, last) ==
    IF o.kind = "Ok" THEN [ret |-> <<Returned(o)>>, last_error |-> last]
    ELSE IF o.kind = "Stale" THEN [ret |-> <<>>, last_error |-> <<>>]
    ELSE IF o.kind = "WebDriverError"
    THEN [ret |-> <<Returned(o)>>, last_error |-> last]
    ELSE IF o.kind = "FatalParseError"
    THEN [ret |-> <<Returned(o)>>, last_error |-> last]
    ELSE [ret |-> <<>>, last_error |-> <<o>>]

\* The arms of `match f(driver).await`, in their order: what is returned (if
\* anything) and the new last_error.
match_arm(o, last) ==
    IF o.kind = "Ok" THEN [ret |-> <<Returned(o)>>, last_error |-> last]
    ELSE IF o.kind = "Stale" THEN [ret |-> <<>>, last_error |-> last]
    ELSE IF o.kind = "WebDriverError"
    THEN [ret |-> <<Returned(o)>>, last_error |-> last]
    ELSE IF o.kind = "FatalParseError"
    THEN [ret |-> <<Returned(o)>>, last_error |-> last]
    ELSE [ret |-> <<>>, last_error |-> <<o>>]

RetryInit ==
    /\ rpc = IF num_tries(PollSeconds) > 0 THEN "probe" ELSE "done"
    /\ attempts = <<>>
    /\ sleeps = 0
    /\ last_error = <<>>
    /\ rresult = IF num_tries(PollSeconds) > 0 THEN <<>>
                 ELSE <<timeout(<<>>)>>

\* f(driver).await and the match on what it returned.
r_probe ==
    /\ rpc = "probe"
    /\ \E o \in Outcomes :
          LET m == match_arm(o, last_error) IN
          /\ attempts' = Append(attempts, o)
          /\ last_error' = m.last_error
          /\ rresult' = m.ret
          /\ rpc' = IF Len(m.ret) > 0 THEN "done" ELSE "sleep"
    /\ UNCHANGED sleeps
    /\ UNCHANGED <<poolVars, reviewVars, parseVars, moreVars>>

\* sleep(delay).await, then the next turn of the loop or the timeout.
r_sleep ==
    /\ rpc = "sleep"
    /\ sleeps' = sleeps + 1
    /\ IF sleeps + 1 < num_tries(PollSeconds)
       THEN /\ rpc' = "probe"
            /\ rresult' = rresult
       ELSE /\ rpc' = "done"
            /\ rresult' = <<timeout(last_error)>>
    /\ UNCHANGED <<attempts, last_error>>
    /\ UNCHANGED <<poolVars, reviewVars, parseVars, moreVars>>

RetryNext == r_probe \/ r_sleep

InitRetry == PoolInit /\ ReviewIdle /\ RetryInit /\ ParseIdle /\ MoreIdle

RetrySpec == InitRetry /\ [][RetryNext]_vars

\* C16: a value, a fatal parse error and a driver error other than
\* stale-reference are returned by the step that got them, as they came and
\* without a sleep, and nothing runs after the return; a stale-reference
\* failure returns nothing and goes to the sleep, and is never what the
\* wrapper returns nor the cause inside its timeout.
RetryStops ==
    /\ [][/\ rpc # "done"
          /\ rpc = "probe" =>
                LET o == Last(attempts') IN
                /\ Len(attempts') = Len(attempts) + 1
                /\ sleeps' = sleeps
                /\ o.kind \in {"Ok", "FatalParseError", "WebDriverError"} =>
                      rpc' = "done" /\ rresult' = <<Returned(o)>>
                /\ o.kind = "Stale" =>
                      rpc' = "sleep" /\ rresult' = <<>>
          /\ rpc = "sleep" =>
                /\ sleeps' = sleeps + 1
                /\ attempts' = attempts
                /\ rpc' = "probe" \/ rresult' = <<timeout(last_error)>>]_vars
    /\ [](\A i \in 1..Len(rresult) : \A j \in 1..Len(rresult[i].what) :
              rresult[i].what[j].kind # "Stale")

\* A fatal parse error came after stale-reference retries and was returned.
RetryStopsWitness ==
    /\ rpc = "done"
    /\ Len(attempts) >= 3
    /\ attempts[1].kind = "Stale"
    /\ Last(attempts).kind = "FatalParseError"
    /\ rresult = <<Returned(Last(attempts))>>
    /\ sleeps = Len(attempts) - 1

IsRecoverable(o) ==
    o.kind \notin {"Ok", "Stale", "WebDriverError", "FatalParseError"}

\* The most recent recoverable error among the attempts, as an Option.
LastRecoverable(s) ==
    LET at == {i \in 1..Len(s) : IsRecoverable(s[i])} IN
    IF at = {} THEN <<>>
    ELSE <<s[CHOOSE i \in at : \A j \in at : j <= i]>>

\* C17: the TimeoutError carries the most recent recoverable error of all the
\* attempts, stale-reference attempts after it notwithstanding, and carries
\* none only if no attempt returned one.
TimeoutCarriesLast ==
    (rpc = "done" /\ Len(rresult) > 0 /\ rresult[1].how = "timeout") =>
        /\ rresult[1].what = LastRecoverable(attempts)
        /\ (rresult[1].what = <<>>) <=>
              (\A i \in 1..Len(attempts) : ~IsRecoverable(attempts[i]))

\* Timed out after two different recoverable errors and stale attempts since.
TimeoutCarriesLastWitness ==
    /\ rpc = "done"
    /\ rresult = <<timeout(<<Recoverable(2)>>)>>
    /\ attempts[1] = Recoverable(2)
    /\ attempts[2] = Recoverable(1)
    /\ attempts[3] = Recoverable(2)
    /\ \A i \in 4..Len(attempts) : attempts[i].kind = "Stale"

\* ================================================================= parser
\* serde_json::Value, as far as the parser looks at it: Null, String (its
\* characters), Number and Array.
J_null == [t |-> "null", s |-> <<>>, v |-> 0, a |-> <<>>]
J_str(chars) == [t |-> "str", s |-> chars, v |-> 0, a |-> <<>>]
J_num(n) == [t |-> "num", s |-> <<>>, v |-> n, a |-> <<>>]
J_arr(items) == [t |-> "arr", s |-> <<>>, v |-> 0, a |-> items]

\* Result<T, ScrapeError>: err names the variant, "Ok" for a value.
Ok(x) == [ok |-> TRUE, val |-> x, err |-> "Ok"]
Err(kind) == [ok |-> FALSE, val |-> <<>>, err |-> kind]

\* f64 values: a fraction num/den of naturals, +infinity, or NaN.
Fin(n, d) == [cls |-> "fin", num |-> n, den |-> d]
PosInf == [cls |-> "inf", num |-> 0, den |-> 0]
NaN == [cls |-> "nan", num |-> 0, den |-> 0]

\* x / y for non-negative x and y.
f64_div(x, y) ==
    IF x.cls = "nan" \/ y.cls = "nan" THEN NaN
    ELSE IF x.cls = "inf" THEN (IF y.cls = "inf" THEN NaN ELSE PosInf)
    ELSE IF y.cls = "inf" THEN Fin(0, 1)
    ELSE IF y.num = 0 THEN (IF x.num = 0 THEN NaN ELSE PosInf)
    ELSE Fin(x.num * y.den, x.den * y.num)

\* x * y for non-negative x and y.
f64_mul(x, y) ==
    IF x.cls = "nan" \/ y.cls = "nan" THEN NaN
    ELSE IF x.cls = "inf" THEN (IF y.cls = "fin" /\ y.num = 0 THEN NaN ELSE PosInf)
    ELSE IF y.cls = "inf" THEN (IF x.num = 0 THEN NaN ELSE PosInf)
    ELSE Fin(x.num * y.num, x.den * y.den)

\* x <= y for finite x and y.
f64_le(x, y) == x.num * y.den <= y.num * x.den

\* f64::clamp: NaN stays NaN.
clamp(x, lo, hi) ==
    IF x.cls = "nan" THEN NaN
    ELSE IF x.cls = "inf" THEN hi
    ELSE IF ~f64_le(lo, x) THEN lo
    ELSE IF ~f64_le(x, hi) THEN hi
    ELSE x

Digits == <<"0", "1", "2", "3", "4", "5", "6", "7", "8", "9">>

IsDigit(c) == \E i \in 1..Len(Digits) : Digits[i] = c

DigitVal(c) == (CHOOSE i \in 1..Len(Digits) : Digits[i] = c) - 1

RECURSIVE ParseNat(_)
ParseNat(chars) ==
    IF chars = <<>> THEN 0
    ELSE Len(Digits) * ParseNat(Front(chars)) + DigitVal(Last(chars))

\* The decimal digits of n, as a JSON text carries them.
RECURSIVE FormatNat(_)
FormatNat(n) ==
    IF n < Len(Digits) THEN <<Digits[n + 1]>>
    ELSE Append(FormatNat(n \div Len(Digits)), Digits[(n % Len(Digits)) + 1])

\* str::parse::<f64> on the strings that occur here: a non-empty run of
\* digits is its number, an empty string or one with another character is an
\* error.
parse_f64(chars) ==
    IF chars # <<>> /\ \A i \in 1..Len(chars) : IsDigit(chars[i])
    THEN Ok(Fin(ParseNat(chars), 1))
    ELSE Err("ParseError")

\* str.split("/").last(): what follows the last "/", the whole string if
\* there is none.
split_last(chars) ==
    LET at == {i \in 1..Len(chars) : chars[i] = "/"} IN
    IF at = {} THEN chars
    ELSE SubSeq(chars, (CHOOSE i \in at : \A j \in at : j <= i) + 1, Len(chars))

as_string(x) == IF x.t = "str" THEN Ok(x.s) ELSE Err("FatalParseError")

\* A lookup that reads null as the empty string instead of None.
as_optional_string_empty(x) ==
    IF x.t = "str" THEN Ok(<<x.s>>)
    ELSE IF x.t = "null" THEN Ok(<<(<<>>)>>)
    ELSE Err("FatalParseError")

as_optional_string(x) ==
    IF x.t = "str" THEN Ok(<<x.s>>)
    ELSE IF x.t = "null" THEN Ok(<<>>)
    ELSE Err("FatalParseError")

as_number(x) == IF x.t = "num" THEN Ok(Fin(x.v, 1)) ELSE Err("FatalParseError")

as_array(x) == IF x.t = "arr" THEN Ok(x.a) ELSE Err("FatalParseError")

\* get_array_index: a negative index counts from the end; an index still
\* negative after that is out of the slice's bounds and panics.
get_array_index(val, index) ==
    IF val.t # "arr" THEN Err("FatalParseError")
    ELSE LET i == IF index < 0 THEN index + Len(val.a) ELSE index IN
         IF i >= Len(val.a) THEN Err("FatalParseError")
         ELSE IF i < 0 THEN Err("panic")
         ELSE Ok(val.a[i + 1])

\* The `?` chains: each step runs on the value of the step before it and an
\* error passes through.
at(r, index) == IF r.ok THEN get_array_index(r.val, index) ELSE r
then_string(r) == IF r.ok THEN as_string(r.val) ELSE r
then_number(r) == IF r.ok THEN as_number(r.val) ELSE r

\* The element of a one-element set.  The({F(x) : x \in {v}}) is
\* `let x = v; F(x)`, with v computed once.
The(S) == CHOOSE y \in S : TRUE

\* The first error of a sequence of results, none if all are values.
first_err(rs) ==
    LET bad == {i \in 1..Len(rs) : ~rs[i].ok} IN
    IF bad = {} THEN <<>>
    ELSE <<rs[CHOOSE i \in bad : \A j \in bad : i <= j].err>>

\* ((5.0 / divisor) * raw).clamp(1.0, 5.0)
\* A rescaling with the factor upside down.
rescale_inverted(divisor, raw) ==
    clamp(f64_mul(f64_div(divisor, Fin(5, 1)), raw), Fin(1, 1), Fin(5, 1))

rescale(divisor, raw) ==
    clamp(f64_mul(f64_div(Fin(5, 1), divisor), raw), Fin(1, 1), Fin(5, 1))

\* The rating of another site: the divisor parsed from the last "/" token of
\* content[8][2], then the raw rating content[8][1], rescaled.
external_stars(c8) ==
    The({The({IF ~divisor.ok THEN divisor
              ELSE IF ~raw.ok THEN raw
              ELSE Ok(rescale(divisor.val, raw.val)) :
                 divisor \in {IF scale.ok THEN parse_f64(split_last(scale.val))
                              ELSE scale}}) :
            scale \in {then_string(at(c8, 2))},
            raw \in {then_number(at(c8, 1))}})

\* review_stars: rescaled from content[8] when content[0] is null, else
\* content[0][0] as it is.
review_stars(review_content) ==
    The({IF ~c0.ok THEN c0
         ELSE IF c0.val.t = "null"
         THEN The({external_stars(c8) : c8 \in {at(review_content, 8)}})
         ELSE then_number(at(c0, 0)) :
            c0 \in {at(review_content, 0)}})

\* review_text: empty when the container starts with a string, else
\* container[0][0] if that is a string, else empty; only the container and
\* its first element are mandatory.
review_text(review_content) ==
    The({IF ~tc0.ok THEN tc0
         ELSE IF tc0.val.t = "str" THEN Ok(<<>>)
         ELSE The({IF inner.ok THEN inner ELSE Ok(<<>>) :
                      inner \in {then_string(at(tc0, 0))}}) :
            tc0 \in {at(at(review_content, 0 - 1), 0)}})

\* The Review of an entry whose lookups all gave a value.
Review(rs) ==
    [timestamp |-> f64_div(rs[1].val, Fin(1000000, 1)),
     author |-> rs[2].val,
     content |-> rs[5].val,
     rating |-> rs[4].val]

\* One turn of the inner loop: the lookups of one entry of a review list in
\* their order (timestamp, author, content, stars, text), the first error or
\* the Review.
parse_entry(x) ==
    The({The({The({IF first_err(rs) # <<>> THEN Err(first_err(rs)[1])
                   ELSE Ok(Review(rs)) :
                      rs \in {<<then_number(at(review_metadata, 2)),
                                then_string(at(at(at(review_metadata, 4), 0), 4)),
                                review_content,
                                review_stars(review_content),
                                review_text(review_content)>>}}) :
                 review_metadata \in {at(data_list, 1)},
                 review_content \in {at(data_list, 2)}}) :
            data_list \in {get_array_index(x, 0)}})

\* The inner loop over one review list.
RECURSIVE parse_list(_)
parse_list(entries) ==
    IF entries = <<>> THEN Ok(<<>>)
    ELSE The({IF ~r.ok THEN r
              ELSE The({IF ~rest.ok THEN rest ELSE Ok(<<r.val>> \o rest.val) :
                           rest \in {parse_list(Tail(entries))}}) :
                 r \in {parse_entry(Head(entries))}})

\* One item of the root list: null and string items give nothing, every
\* other item has to be a review list.
parse_item(x) ==
    IF x.t = "null" \/ x.t = "str" THEN Ok(<<>>)
    ELSE The({IF review_lists.ok THEN parse_list(review_lists.val)
              ELSE review_lists :
                 review_lists \in {as_array(x)}})

\* The outer loop over the root list.
RECURSIVE parse_items(_)
parse_items(items) ==
    IF items = <<>> THEN Ok(<<>>)
    ELSE The({IF ~r.ok THEN r
              ELSE The({IF ~rest.ok THEN rest ELSE Ok(r.val \o rest.val) :
                           rest \in {parse_items(Tail(items))}}) :
                 r \in {parse_item(Head(items))}})

\* str::find: the least 0-based index where pat starts in chars, as an
\* Option.
find(chars, pat) ==
    LET at_ == {i \in 0..(Len(chars) - Len(pat)) :
                   SubSeq(chars, i + 1, i + Len(pat)) = pat} IN
    IF at_ = {} THEN <<>>
    ELSE <<CHOOSE i \in at_ : \A j \in at_ : i <= j>>

\* A token spliced in as it is, "=" unescaped.
encode_token_plain(token) == token

\* str::replace("=", "%3d")
RECURSIVE encode_token(_)
encode_token(token) ==
    IF token = <<>> THEN <<>>
    ELSE (IF Head(token) = "=" THEN <<"%", "3", "d">> ELSE <<Head(token)>>)
             \o encode_token(Tail(token))

\* A rewrite that looks for the closing "!" from the "!" of "!2s" on.
rewrite_url_from_start(url, token) ==
    The({IF found = <<>> THEN Err("FatalParseError")
         ELSE The({The({Ok(SubSeq(url, 1, idx) \o <<"!", "2", "s">>
                               \o encode_token(token)
                               \o SubSeq(url, end_idx + 1, Len(url))) :
                           end_idx \in {(IF bang = <<>> THEN Len(url) - idx
                                         ELSE bang[1]) + idx}}) :
                      idx \in {found[1]},
                      bang \in {find(SubSeq(url, found[1] + 1, Len(url)),
                                     <<"!">>)}}) :
            found \in {find(url, <<"!", "2", "s">>)}})

\* The continuation URL: the segment from the first "!2s" up to the next "!"
\* of the previous URL is replaced by "!2s" and the encoded token.
rewrite_url(url, token) ==
    The({IF found = <<>> THEN Err("FatalParseError")
         ELSE The({The({Ok(SubSeq(url, 1, idx) \o <<"!", "2", "s">>
                               \o encode_token(token)
                               \o SubSeq(url, end_idx + 1, Len(url))) :
                           end_idx \in {(IF bang = <<>> THEN Len(url) - (idx + 1)
                                         ELSE bang[1]) + idx + 1}}) :
                      idx \in {found[1]},
                      bang \in {find(SubSeq(url, found[1] + 2, Len(url)),
                                     <<"!">>)}}) :
            found \in {find(url, <<"!", "2", "s">>)}})

\* What the parser returns: the variant ("Ok" for a ReviewResult), the
\* reviews and the continuation URL.
ParseResult(kind, reviews, next_url) ==
    [kind |-> kind, reviews |-> reviews, next_url |-> next_url]

\* The continuation URL of a ReviewResult, an Option inside a Result.
next_url_of(url, next_token) ==
    IF next_token = <<>> THEN Ok(<<>>)
    ELSE The({IF r.ok THEN Ok(<<r.val>>) ELSE r :
                 r \in {rewrite_url(url, next_token[1])}})

\* parse_logged_reviews.  body is the payload's last line as JSON, <<>> when
\* it is not JSON.  The token is looked up first, then the reviews are
\* parsed, then the URL is rewritten.
parse_logged_reviews(url, body) ==
    IF body = <<>> THEN ParseResult("JsonError", <<>>, <<>>)
    ELSE The({IF ~next_token.ok THEN ParseResult(next_token.err, <<>>, <<>>)
              ELSE The({IF ~reviews.ok
                        THEN ParseResult(reviews.err, <<>>, <<>>)
                        ELSE The({IF ~next_url.ok
                                  THEN ParseResult(next_url.err, <<>>, <<>>)
                                  ELSE ParseResult("Ok", reviews.val,
                                                   next_url.val) :
                                     next_url \in
                                         {next_url_of(url, next_token.val)}}) :
                           reviews \in {parse_items(as_array(body[1]).val)}}) :
                 next_token \in
                     {The({IF at1.ok THEN as_optional_string(at1.val) ELSE at1 :
                              at1 \in {get_array_index(body[1], 1)}})}})

\* The loop of get_logged_reviews over the recorded pairs, with what it has
\* gathered so far.
RECURSIVE logged_loop(_, _, _)
logged_loop(results, parsed_, next_url) ==
    IF results = <<>> THEN ParseResult("Ok", parsed_, next_url)
    ELSE The({IF r.kind # "Ok" THEN r
              ELSE logged_loop(Tail(results), parsed_ \o r.reviews, r.next_url) :
                 r \in {parse_logged_reviews(Head(results).url,
                                             Head(results).body)}})

\* get_logged_reviews, from the recorded list on.
get_logged_reviews(results) ==
    IF Len(results) # 0 THEN logged_loop(results, <<>>, <<>>)
    ELSE ParseResult("ParseError", <<>>, <<>>)

\* ------------------------------------------------ the payloads that are run
\* The largest raw rating and the largest scale a payload carries.
MaxRaw == 6
MaxDivisor == 10

Raws == 0..MaxRaw

Nulls(n) == [i \in 1..n |-> J_null]

\* content: content[0] the direct rating, content[8] the rating of another
\* site, the last element the text container.
Content(c0, c8, tc) == J_arr(<<c0>> \o Nulls(7) \o <<c8, tc>>)

\* metadata: the timestamp at [2], the author at [4][0][4].
Metadata(ts, author) ==
    J_arr(<<J_null, J_null, ts, J_null, J_arr(<<J_arr(Nulls(4) \o <<author>>)>>)>>)

\* An entry of a review list: [[_, metadata, content]].
Entry(ts, author, content) ==
    J_arr(<<J_arr(<<J_null, Metadata(ts, author), content>>)>>)

\* The root list: a review list, the continuation token at [1], a string.
Root(entries, token) == J_arr(<<J_arr(entries), token, J_str(<<>>)>>)

DirectRatings ==
    {J_arr(<<J_num(r)>>) : r \in Raws}
        \cup {J_arr(<<>>), J_arr(<<J_str(<<"5">>)>>), J_num(3)}

Scales ==
    {<<"4", "/">> \o FormatNat(d) : d \in 0..MaxDivisor}
        \cup {FormatNat(5), <<"4", "/", "x">>, <<"4", "/">>, <<>>}

\* [BUNCH_OF_DATA, 8, "8/10", "0"]
ScaleOfTen ==
    J_arr(<<J_arr(<<J_num(1)>>), J_num(8),
            J_str(<<"8", "/", "1", "0">>), J_str(<<"0">>)>>)

\* [null, 4, "4/5", "0"]
ScaleOfFive ==
    J_arr(<<J_null, J_num(4), J_str(<<"4", "/", "5">>), J_str(<<"0">>)>>)

ExternalRatings ==
    {J_arr(<<J_null, J_num(r), J_str(sc), J_str(<<"0">>)>>) :
        r \in Raws, sc \in Scales}
        \cup {ScaleOfTen,
              J_null,
              J_arr(<<J_null, J_str(<<"4">>), J_str(<<"4", "/", "5">>)>>),
              J_arr(<<J_null, J_num(4), J_num(5)>>),
              J_arr(<<J_null, J_num(4)>>)}

TextContainers ==
    {J_arr(<<J_str(<<"e", "n">>)>>),
     J_arr(<<J_arr(<<J_str(<<"t">>)>>)>>),
     J_arr(<<J_num(4)>>),
     J_arr(<<J_arr(<<J_arr(<<J_str(<<"G">>)>>)>>)>>),
     J_arr(<<>>),
     J_null}

Contents ==
    {Content(c0, J_null, tc) : c0 \in DirectRatings, tc \in TextContainers}
        \cup {Content(J_null, c8, tc) :
                 c8 \in ExternalRatings, tc \in TextContainers}
        \cup {J_null, J_arr(<<>>)}

Tokens == {J_null, J_str(<<"T", "=">>), J_num(1)}

Entries ==
    {Entry(ts, author, content) :
        ts \in {J_num(2), J_str(<<"x">>)},
        author \in {J_str(<<"a">>), J_null},
        content \in Contents}
        \cup {J_arr(<<>>), J_arr(<<J_arr(<<J_null>>)>>), J_null}

Roots ==
    {Root(<<e>>, token) : e \in Entries, token \in Tokens}
        \cup {Root(<<>>, J_null), J_num(1), J_arr(<<>>),
              J_arr(<<J_num(1), J_null>>)}

MarkedUrl == <<"u", "!", "2", "s", "O", "!", "5">>
PlainUrl == <<"u", "!", "5">>

Recordings ==
    {<<[url |-> u, body |-> <<root>>]>> :
        u \in {MarkedUrl, PlainUrl}, root \in Roots}
        \cup {<<>>, <<[url |-> MarkedUrl, body |-> <<>>]>>}

ParseInit ==
    /\ recorded \in Recordings
    /\ parsed = <<>>

\* The probe of list_reviews: get_logged_reviews under the retry wrapper, and
\* the match on what it returned.
p_probe ==
    /\ rpc = "probe"
    /\ \E res \in {get_logged_reviews(recorded)} :
       \E m \in {match_arm([kind |-> res.kind, id |-> 0], last_error)} :
          /\ parsed' = <<res>>
          /\ attempts' = Append(attempts, [kind |-> res.kind, id |-> 0])
          /\ last_error' = m.last_error
          /\ rresult' = m.ret
          /\ rpc' = IF Len(m.ret) > 0 THEN "done" ELSE "sleep"
    /\ UNCHANGED <<recorded, sleeps>>
    /\ UNCHANGED <<poolVars, reviewVars, moreVars>>

ParseNext == p_probe \/ r_sleep

InitParse == PoolInit /\ ReviewIdle /\ RetryInit /\ ParseInit /\ MoreIdle

ParseSpec == InitParse /\ [][ParseNext]_vars

Produced == IF Len(parsed) > 0 /\ parsed[1].kind = "Ok"
            THEN parsed[1].reviews ELSE <<>>

\* C18: every Review the parser produces has a rating from 1.0 to 5.0.
RatingInRange ==
    \A i \in 1..Len(Produced) :
        LET r == Produced[i].rating IN
        /\ r.cls = "fin"
        /\ f64_le(Fin(1, 1), r)
        /\ f64_le(r, Fin(5, 1))

\* The recorded payload is JSON and the parser ran on it.
ParsedJson ==
    /\ Len(recorded) > 0
    /\ Len(recorded[1].body) > 0
    /\ Len(attempts) > 0

\* C19: when the parser fails on a JSON payload the failure is a
\* FatalParseError, and the wrapper returns it from the first attempt without
\* a sleep.
LookupFailureFatal ==
    (ParsedJson /\ attempts[1].kind # "Ok") =>
        /\ attempts[1].kind = "FatalParseError"
        /\ Len(attempts) = 1
        /\ sleeps = 0
        /\ rpc = "done"
        /\ rresult = <<Returned(attempts[1])>>

\* ------------------------------------------------ the continuation rewrite
\* The longest previous URL and the longest token that are run.
MaxUrlLen == 6
MaxTokenLen == 2

\* All sequences over chars of length up to n.
Strings(chars, n) == UNION {[1..k -> chars] : k \in 0..n}

ExampleUrl ==
    <<"h", "t", "t", "p", "s", ":", "/", "/", "x", "/", "y",
      "!", "2", "s", "O", "L", "D", "!", "5", "e", "0">>
ExampleToken == <<"T", "=">>
ExampleRewritten ==
    <<"h", "t", "t", "p", "s", ":", "/", "/", "x", "/", "y",
      "!", "2", "s", "T", "%", "3", "d", "!", "5", "e", "0">>

PreviousUrls == Strings({"!", "2", "s", "a"}, MaxUrlLen) \cup {ExampleUrl}
TokenStrings == Strings({"T", "="}, MaxTokenLen)

\* The second root element of a payload: a continuation token, or null on the
\* last page.
PageTokens == {J_str(tok) : tok \in TokenStrings} \cup {J_null}

\* A review list entry that parses: timestamp, author, a direct rating and an
\* empty text.
GoodEntry ==
    Entry(J_num(2), J_str(<<"a">>),
          Content(J_arr(<<J_num(4)>>), J_null, J_arr(<<J_str(<<"e", "n">>)>>)))

\* Payloads with no reviews and each token; last pages (null at [1]) with no
\* review list entry, with one, and with strings and nulls only.
RewriteRoots ==
    {Root(<<>>, tok) : tok \in PageTokens}
        \cup {Root(<<GoodEntry>>, J_null),
              J_arr(<<J_str(<<"x">>), J_null, J_null, J_str(<<>>)>>)}

\* A payload and the URL it was fetched from.
RewriteInit ==
    /\ \E u \in PreviousUrls, root \in RewriteRoots :
          recorded = <<[url |-> u, body |-> <<root>>]>>
    /\ parsed = <<>>

\* parse_logged_reviews called on a fetched payload, as ReviewIter::next
\* calls it.
p_parse ==
    /\ Len(recorded) > 0
    /\ parsed = <<>>
    /\ parsed' = <<parse_logged_reviews(recorded[1].url, recorded[1].body)>>
    /\ UNCHANGED recorded
    /\ UNCHANGED <<poolVars, reviewVars, retryVars, moreVars>>

InitRewrite == PoolInit /\ ReviewIdle /\ RetryIdle /\ RewriteInit /\ MoreIdle

RewriteSpec == InitRewrite /\ [][p_parse]_vars

\* Where "!2s" starts in url (1-based).
MarkerAt(url) ==
    {i \in 1..(Len(url) - 2) :
        url[i] = "!" /\ url[i + 1] = "2" /\ url[i + 2] = "s"}

Least(S) == CHOOSE i \in S : \A j \in S : i <= j

\* How many characters the encoding of token[1..i-1] takes.
EncodedBefore(token, i) ==
    (i - 1) + 2 * Cardinality({j \in 1..(i - 1) : token[j] = "="})

\* token with every "=" replaced by "%3d", character by character.
Encoded(token) ==
    [k \in 1..EncodedBefore(token, Len(token) + 1) |->
        LET i == CHOOSE i \in 1..Len(token) :
                     /\ EncodedBefore(token, i) < k
                     /\ k <= EncodedBefore(token, i + 1)
        IN  IF token[i] = "="
            THEN <<"%", "3", "d">>[k - EncodedBefore(token, i)]
            ELSE token[i]]

\* url[..start] + "!2s" + encoded token + url[end..], with start the first
\* "!2s" and end the next "!" after start, the end of the string if none.
ExpectedUrl(url, token) ==
    LET start == Least(MarkerAt(url))
        bangs == {j \in (start + 1)..Len(url) : url[j] = "!"}
        end == IF bangs = {} THEN Len(url) + 1 ELSE Least(bangs)
    IN  SubSeq(url, 1, start - 1) \o <<"!", "2", "s">> \o Encoded(token)
            \o SubSeq(url, end, Len(url))

\* C20: with a token, a previous URL that has "!2s" is rewritten to
\* url[..start] + "!2s" + the token with "=" as "%3d" + url[end..], and a
\* previous URL without "!2s" is a fatal parse error.
RewriteContract ==
    (Len(parsed) > 0 /\ recorded[1].body[1].a[2].t = "str") =>
        LET url == recorded[1].url
            token == recorded[1].body[1].a[2].s
        IN  /\ MarkerAt(url) # {} =>
                  /\ parsed[1].kind = "Ok"
                  /\ parsed[1].next_url = <<ExpectedUrl(url, token)>>
            /\ MarkerAt(url) = {} => parsed[1].kind = "FatalParseError"
            /\ (url = ExampleUrl /\ token = ExampleToken) =>
                  parsed[1].next_url = <<ExampleRewritten>>

RewriteContractWitness ==
    /\ Len(parsed) > 0
    /\ recorded[1].url = ExampleUrl
    /\ recorded[1].body[1].a[2] = J_str(ExampleToken)
    /\ parsed[1].next_url = <<ExampleRewritten>>

\* Where pat occurs in s (1-based start positions).
Occurs(s, pat) ==
    {i \in 1..(Len(s) - Len(pat) + 1) : SubSeq(s, i, i + Len(pat) - 1) = pat}

\* The segment of url that rewrite_url replaces: the first "!2s" and the token
\* after it, up to the next "!" or the end of the string.
ReplacedSegment(url) ==
    LET start == Least(MarkerAt(url))
        stops == {j \in (start + 3)..Len(url) : url[j] = "!"}
        end   == IF stops = {} THEN Len(url) + 1 ELSE Least(stops)
    IN  SubSeq(url, start, end - 1)

ListedEntries(root) ==
    UNION {{<<i, j>> : j \in 1..Len(root.a[i].a)} :
              i \in {k \in 1..Len(root.a) : root.a[k].t = "arr"}}

\* C29: a payload whose root has null at [1] parses, for every previous URL,
\* to a result with no continuation URL; the null and string elements of
\* the root contribute no reviews; [[], null, ""] gives zero reviews, no
\* continuation URL and no error.
LastPageNoUrl ==
    (Len(parsed) > 0 /\ recorded[1].body[1].a[2] = J_null) =>
        /\ parsed[1].kind = "Ok"
        /\ parsed[1].next_url = <<>>
        /\ Len(parsed[1].reviews)
               = Cardinality(ListedEntries(recorded[1].body[1]))
        /\ recorded[1].body[1] = Root(<<>>, J_null) =>
               parsed[1] = ParseResult("Ok", <<>>, <<>>)

\* [[], null, ""] fetched from a URL without "!2s" was parsed.
LastPageNoUrlWitness ==
    /\ Len(parsed) > 0
    /\ recorded[1].body[1] = Root(<<>>, J_null)
    /\ MarkerAt(recorded[1].url) = {}
    /\ parsed[1] = ParseResult("Ok", <<>>, <<>>)

\* The content of the only entry of the recorded payload.
OnlyContent == recorded[1].body[1].a[1].a[1].a[1].a[3]

\* The parser produced one review from the recorded payload.
OneReview ==
    /\ Len(parsed) > 0
    /\ parsed[1].kind = "Ok"
    /\ Len(parsed[1].reviews) = 1

\* The same f64 value.
SameF64(x, y) ==
    /\ x.cls = y.cls
    /\ x.cls = "fin" => x.num * y.den = y.num * x.den

\* raw * 5 / divisor, clamped to 1..5, with divisor what follows the last "/"
\* of the scale string.
Rescaled(c8) ==
    clamp(f64_div(f64_mul(Fin(c8.a[2].v, 1), Fin(5, 1)),
                  Fin(ParseNat(split_last(c8.a[3].s)), 1)),
          Fin(1, 1), Fin(5, 1))

\* C27: when content[0] is null the rating of the review is
\* clamp(raw * 5 / divisor, 1, 5) with raw = content[8][1] and divisor what
\* follows the last "/" of content[8][2], so [null,4,"4/5","0"] and
\* [x,8,"8/10","0"] both give 4.0; when content[0] is not null the rating is
\* content[0][0].
RatingRule ==
    OneReview =>
        LET rating == parsed[1].reviews[1].rating
            c0 == OnlyContent.a[1]
            c8 == OnlyContent.a[9]
        IN  /\ c0 = J_null => SameF64(rating, Rescaled(c8))
            /\ (c0 = J_null /\ c8 \in {ScaleOfFive, ScaleOfTen}) =>
                   SameF64(rating, Fin(4, 1))
            /\ c0 # J_null => SameF64(rating, Fin(c0.a[1].v, 1))

\* A review rated 8 on a scale of 10 was parsed to a rating of 4.
RatingRuleWitness ==
    /\ OneReview
    /\ OnlyContent.a[1] = J_null
    /\ OnlyContent.a[9] = ScaleOfTen
    /\ SameF64(parsed[1].reviews[1].rating, Fin(4, 1))

\* A payload of one entry whose timestamp, author and rating are in place,
\* with r the direct rating and tc the text container.
WithContainer(r, tc) ==
    Root(<<Entry(J_num(2), J_str(<<"a">>),
                 Content(J_arr(<<J_num(r)>>), J_null, tc))>>, J_null)

\* tc[0][0] when tc[0] is not a string and tc[0][0] is one, else empty.
ExpectedText(tc) ==
    IF /\ tc.t = "arr" /\ Len(tc.a) > 0
       /\ tc.a[1].t = "arr" /\ Len(tc.a[1].a) > 0
       /\ tc.a[1].a[1].t = "str"
    THEN tc.a[1].a[1].s
    ELSE <<>>

\* C28: the text container never makes the parse fail: for every container
\* tc the review is produced with its timestamp, author and rating, and its
\* text is tc[0][0] when tc[0] is not a string and tc[0][0] is one, and
\* empty otherwise ([4], guided content, or any other failing lookup).
TextNeverFails ==
    \A r \in Raws, tc \in TextContainers :
        (Len(parsed) > 0 /\ Len(recorded) > 0
            /\ recorded[1].body = <<WithContainer(r, tc)>>) =>
            /\ parsed[1].kind = "Ok"
            /\ Len(parsed[1].reviews) = 1
            /\ parsed[1].reviews[1].content = ExpectedText(tc)
            /\ parsed[1].reviews[1].author = <<"a">>
            /\ SameF64(parsed[1].reviews[1].rating, Fin(r, 1))
            /\ SameF64(parsed[1].reviews[1].timestamp, Fin(2, 1000000))

\* The wrapper's steps are taken as long as one is possible: the probe and
\* the sleep both complete.
RetryFairSpec == RetrySpec /\ WF_vars(RetryNext)

\* An attempt the wrapper retries: a stale reference or a recoverable error.
IsRetried(o) == o.kind \notin {"Ok", "WebDriverError", "FatalParseError"}

\* How many of the attempts were retried.
Retried(s) == Cardinality({i \in 1..Len(s) : IsRetried(s[i])})

\* C26: the retry wrapper with a delay of 1 s terminates; it probes at most
\* 10 times, has slept once for every retried attempt (the one in progress
\* excepted), and returns a TimeoutError exactly when 10 attempts in a row
\* were retried, after the 10th.
RetryTerminates ==
    /\ [](/\ Len(attempts) <= 10
          /\ sleeps = Retried(attempts) - (IF rpc = "sleep" THEN 1 ELSE 0)
          /\ rpc = "sleep" => IsRetried(Last(attempts))
          /\ \A i \in 1..(Len(attempts) - 1) : IsRetried(attempts[i])
          /\ rpc = "done" =>
                /\ Len(rresult) = 1
                /\ rresult[1].how = "timeout" <=>
                      (Len(attempts) = 10 /\ Retried(attempts) = 10))
    /\ <>(rpc = "done")

\* Ten retried attempts, ten sleeps, and the TimeoutError.
RetryTerminatesWitness ==
    /\ rpc = "done"
    /\ Len(attempts) = 10
    /\ sleeps = 10
    /\ rresult[1].how = "timeout"

\* ============================================== more claims about the pool
\* C30: the free set and the wait queue are never both non-empty, and once
\* close() has set closed the free set is empty and stays empty.
FreeOrWaiting ==
    /\ ~(free # <<>> /\ waiting # <<>>)
    /\ closed => free = <<>>

\* After close() a lease was dropped while drain waiters were queued: the
\* Worker went to the drain channel and the free set is still empty.
FreeOrWaitingWitness ==
    /\ closed
    /\ free = <<>>
    /\ waiting # <<>>
    /\ sink # <<>>

\* C25: the try_send of return_object to the head waiter never fails, drain
\* waiters left by a close() that returned early or was dropped included.
\* A failed send is what poisons the mutex: its unwrap() panics with the
\* lock held.
SendNeverFails == ~poisoned

\* C24: during close() the shutdown function gets every Worker that was free
\* at close before any reclaimed Worker, and the reclaimed Workers in the
\* order of their release: a shutdown takes the next free-at-close Worker
\* while there is one and the oldest released Worker otherwise, and a
\* release joins the released Workers at the end.
FreeBeforeReclaimed ==
    [][/\ shut' # shut =>
             IF closeFree # <<>>
             THEN /\ shut' = Append(shut, Head(closeFree))
                  /\ closeFree' = Tail(closeFree)
                  /\ drained' = 0
             ELSE /\ sink # <<>>
                  /\ shut' = Append(shut, Head(sink))
                  /\ sink' = Tail(sink)
       /\ sink' # sink =>
             \/ /\ sink # <<>>
                /\ sink' = Tail(sink)
                /\ shut' = Append(shut, Head(sink))
             \/ \E o \in Workers : sink' = Append(sink, o)]_vars

\* Both Workers were leased at close; Worker 1 was released first, then
\* Worker 2, and they were shut down in that order.
FreeBeforeReclaimedWitness ==
    /\ cpc = "run"
    /\ remaining = 2
    /\ drained = 2
    /\ shut = <<1, 2>>

\* ================================================== building the pool
\* The largest capacity a pool is built with.
MaxBuild == 7

\* new_client_pool is called with a capacity; nothing is built yet.
BuildInit ==
    /\ bpc = "loop"
    /\ capacity \in 0..MaxBuild
    /\ objs = <<>>
    /\ sessions = {}

\* What the drop of the Vec `objs` leaves of the sessions of its Workers: the
\* function calls no Client::close, and whether the drop of a WebDriver ends
\* its session is up to the driver library, Worker by Worker.
DroppedObjs(open) == SUBSET open

\* One turn of `for _ in 0..capacity`: Client::new(driver).await succeeds and
\* the Worker is pushed, or fails and `?` returns the error, dropping objs.
b_new ==
    /\ bpc = "loop"
    /\ Len(objs) < capacity
    /\ \E ok \in BOOLEAN :
          IF ok
          THEN /\ objs' = Append(objs, Len(objs) + 1)
               /\ sessions' = sessions \cup {Len(objs) + 1}
               /\ UNCHANGED bpc
          ELSE /\ bpc' = "err"
               /\ objs' = <<>>
               /\ sessions' \in DroppedObjs(sessions)
    /\ UNCHANGED capacity
    /\ UNCHANGED <<poolVars, reviewVars, retryVars, parseVars, lockVars, searchVars>>

\* The loop is over: Ok(ObjectPool { .. free: objs }).
b_ok ==
    /\ bpc = "loop"
    /\ Len(objs) = capacity
    /\ bpc' = "ok"
    /\ UNCHANGED <<capacity, objs, sessions>>
    /\ UNCHANGED <<poolVars, reviewVars, retryVars, parseVars, lockVars, searchVars>>

BuildNext == b_new \/ b_ok

InitBuild ==
    /\ PoolInit /\ ReviewIdle /\ RetryIdle /\ ParseIdle
    /\ BuildInit /\ LockIdle /\ SearchIdle

BuildSpec == InitBuild /\ [][BuildNext]_vars

\* C22: a pool built with capacity n has its n Workers when the constructor
\* returns it; if building a Worker fails the constructor fails and every
\* Worker built before was closed, its session released: no Worker outlives
\* the failed construction.
FailedBuildClosesAll ==
    /\ bpc = "ok" =>
          /\ Len(objs) = capacity
          /\ sessions = 1..capacity
    /\ bpc = "err" =>
          /\ objs = <<>>
          /\ sessions = {}

\* ================================================ the mutex of the pool
\* How many tasks call into the pool.
NumLockTasks == 2

LockTasks == 1..NumLockTasks

\* self.inner.lock() in get(), close(), PoolHandle::drop, PoolWaiter::drop.
LockPoints ==
    {"get_lock", "close_lock", "drop_handle_lock", "drop_waiter_lock"}

\* Inside the scope of the MutexGuard `inner`.
LockedPoints ==
    {"get_locked", "close_locked", "drop_handle_locked", "drop_waiter_locked"}

\* The .await expressions: waiter.recv().await in get(), f(..).await and
\* rx.recv().await in close().  The destructors have none.
AwaitPoints == {"get_await", "close_await"}

\* The position inside the guard's scope that follows a lock().
Locked(pt) ==
    CASE pt = "get_lock" -> "get_locked"
      [] pt = "close_lock" -> "close_locked"
      [] pt = "drop_handle_lock" -> "drop_handle_locked"
      [] pt = "drop_waiter_lock" -> "drop_waiter_locked"

\* Where the guard's scope can lead.  get(): Err(PoolClosed), a handle from
\* the free Vec, or a queued waiter and its recv().await.  close(): Ok(()) on
\* a closed pool, or the two loops with their awaits.  The destructors:
\* return, or the panic of try_send(obj).unwrap().
AfterScope(pt) ==
    CASE pt = "get_locked" -> {"idle", "holding", "get_await"}
      [] pt = "close_locked" -> {"idle", "close_await"}
      [] pt = "drop_handle_locked" -> {"idle", "panicked"}
      [] pt = "drop_waiter_locked" -> {"idle", "panicked"}

\* A guard that outlives its block.
scope_end_leak(t) == t

\* Who holds the mutex when task t leaves the scope of its guard: the end of
\* the block, drop(inner), a return or an unwinding panic all drop the guard.
scope_end(t) == 0

LockInit ==
    /\ guard = 0
    /\ lpc = [t \in LockTasks |-> "idle"]
    /\ lpoisoned = FALSE

\* A task calls get() or close(), or drops the PoolHandle it holds.
l_call(t) ==
    /\ lpc[t] \in {"idle", "holding"}
    /\ \E pt \in (IF lpc[t] = "holding" THEN {"drop_handle_lock"}
                   ELSE {"get_lock", "close_lock"}) :
          lpc' = [lpc EXCEPT ![t] = pt]
    /\ UNCHANGED <<guard, lpoisoned>>
    /\ UNCHANGED <<poolVars, reviewVars, retryVars, parseVars, buildVars, searchVars>>

\* lock().unwrap(): blocks while another task holds the guard; on a poisoned
\* mutex the guard comes inside the error and is dropped by the panic.
l_lock(t) ==
    /\ lpc[t] \in LockPoints
    /\ guard = 0
    /\ IF lpoisoned
       THEN /\ lpc' = [lpc EXCEPT ![t] = "panicked"]
            /\ UNCHANGED guard
       ELSE /\ lpc' = [lpc EXCEPT ![t] = Locked(lpc[t])]
            /\ guard' = t
    /\ UNCHANGED lpoisoned
    /\ UNCHANGED <<poolVars, reviewVars, retryVars, parseVars, buildVars, searchVars>>

\* The code inside the guard's scope, which has no await, runs to the end of
\* the scope.
l_scope(t) ==
    /\ lpc[t] \in LockedPoints
    /\ guard = t
    /\ \E pt \in AfterScope(lpc[t]) :
          /\ lpc' = [lpc EXCEPT ![t] = pt]
          /\ lpoisoned' = (lpoisoned \/ pt = "panicked")
    /\ guard' = scope_end(t)
    /\ UNCHANGED <<poolVars, reviewVars, retryVars, parseVars, buildVars, searchVars>>

\* An await completes: recv() gives a handle; close() goes to its next await
\* or returns.
l_resume(t) ==
    /\ lpc[t] \in AwaitPoints
    /\ lpc' = [lpc EXCEPT ![t] = IF lpc[t] = "get_await" THEN "holding"
                                 ELSE "idle"]
    /\ UNCHANGED <<guard, lpoisoned>>
    /\ UNCHANGED <<poolVars, reviewVars, retryVars, parseVars, buildVars, searchVars>>

\* The future is dropped at its await: the PoolWaiter of a get() is dropped
\* with it, a close() just ends.
l_cancel(t) ==
    /\ lpc[t] \in AwaitPoints
    /\ lpc' = [lpc EXCEPT ![t] = IF lpc[t] = "get_await"
                                 THEN "drop_waiter_lock" ELSE "idle"]
    /\ UNCHANGED <<guard, lpoisoned>>
    /\ UNCHANGED <<poolVars, reviewVars, retryVars, parseVars, buildVars, searchVars>>

LockNext ==
    \E t \in LockTasks :
        l_call(t) \/ l_lock(t) \/ l_scope(t) \/ l_resume(t) \/ l_cancel(t)

InitLock ==
    /\ PoolInit /\ ReviewIdle /\ RetryIdle /\ ParseIdle
    /\ BuildIdle /\ LockInit /\ SearchIdle

\* A task inside the guard's scope keeps running: the scope has no await and
\* nothing in it blocks.
LockSpec ==
    InitLock /\ [][LockNext]_vars /\ \A t \in LockTasks : WF_vars(l_scope(t))

\* C23: no task is at an await of get() or close() while it holds the guard
\* of the pool's mutex, the destructors of PoolHandle and PoolWaiter hold it
\* only inside their scope, and a held mutex is always released: no task
\* waits for it forever because its holder is suspended.
NoGuardAcrossAwait ==
    /\ [](\A t \in LockTasks : lpc[t] \in AwaitPoints => guard # t)
    /\ [](guard # 0 => lpc[guard] \in LockedPoints)
    /\ (guard # 0) ~> (guard = 0)

\* One task is suspended in get() while the other holds the guard in the
\* destructor of its handle.
NoGuardAcrossAwaitWitness ==
    /\ lpc[1] = "get_await"
    /\ guard = 2
    /\ lpc[2] = "drop_handle_locked"

\* ============================================ close() called more than once
\* C31: a close() on a pool that is already closed returns Ok, passes no
\* Worker to its shutdown function and leaves the wait queue as it is, so
\* over all the calls of close() no Worker is shut down twice.
CloseIdempotent ==
    /\ [][(closed /\ closeAgain' # closeAgain) =>
             /\ closeAgain' = "ok"
             /\ shut' = shut
             /\ waiting' = waiting]_vars
    /\ [](\A i, j \in 1..Len(shut) : shut[i] = shut[j] => i = j)

\* C32: when the shutdown function fails for a Worker, close() returns the
\* error at once and passes no further Worker to it; the pool stays closed;
\* and the leases still out can be dropped after that without a panic and
\* without their Worker being handed to a lessee.
FailedCloseIsClean ==
    /\ [][cpc = "err" =>
             /\ shut' = shut
             /\ closed'
             /\ \A t \in Tasks : Len(chan'[t]) <= Len(chan[t])
             /\ \A t \in Tasks :
                   (pc[t] = "holding" /\ pc'[t] # "holding") =>
                       pc'[t] = "idle" /\ ~poisoned']_vars
    /\ [](cpc = "err" => closed)

\* ============================================ a ReviewIter called freely
\* How many times next() is called on one iterator.
MaxCalls == 12

\* list_reviews has returned an iterator over the first payload; its caller
\* is anyone, not the reviews handler.
IterInit ==
    /\ pages \in 0..MaxPages
    /\ hpc = "iter"
    /\ hclient = FALSE
    /\ listed = "ok"
    /\ iter = ReviewIter_new(Page(pages, 0))
    /\ pending = <<>>
    /\ out = <<>>
    /\ rxOpen = FALSE
    /\ fetched = <<>>
    /\ yielded = <<>>

\* it.next().await, whatever the calls before it returned.
i_next ==
    /\ hpc = "iter"
    /\ Len(yielded) < MaxCalls
    /\ \E resp \in IF Len(iter.next_result) = 0 /\ Len(iter.next_url) > 0
                   THEN {<<>>, <<Page(pages, iter.next_url[1])>>}
                   ELSE {<<>>} :
       \E r \in {next(iter, resp)} :
          /\ iter' = r.iter
          /\ yielded' = Append(yielded, r.ret)
          /\ fetched' = fetched \o r.fetch
    /\ UNCHANGED <<pages, hpc, hclient, listed, pending, out, rxOpen>>
    /\ UNCHANGED <<poolVars, retryVars, parseVars, moreVars>>

InitIter == PoolInit /\ IterInit /\ RetryIdle /\ ParseIdle /\ MoreIdle

IterSpec == InitIter /\ [][i_next]_vars

\* C33: once next() has returned None or an error, every later call returns
\* None and fetches nothing; an error took the continuation URL with it, so
\* no URL is ever fetched twice.
IterFused ==
    /\ [][(Len(yielded) > 0 /\ Last(yielded).kind \in {"none", "err"}) =>
             /\ yielded' = Append(yielded, NoBatch)
             /\ fetched' = fetched
             /\ iter' = [next_result |-> <<>>, next_url |-> <<>>]]_vars
    /\ [](\A i, j \in 1..Len(fetched) : fetched[i] = fetched[j] => i = j)

\* The fetch of the first continuation failed, and the two calls after the
\* error returned None without a fetch.
IterFusedWitness ==
    /\ hpc = "iter"
    /\ Len(yielded) = 4
    /\ yielded[2] = NextErr
    /\ yielded[3] = NoBatch
    /\ yielded[4] = NoBatch
    /\ fetched = <<1>>

\* ====================================================== a search request
\* The task of the pool that runs the search handler.
SearchTask == 1

\* The handler's frame: everything but its own position and the pool.
SearchFrame ==
    UNCHANGED <<poolVars, reviewVars, retryVars, parseVars, buildVars,
                lockVars>>

\* What handle_search returns on its paths.
SearchReturns == {"Ok", "ScrapeError", "QueryError", "PoolError"}

SearchInit ==
    /\ spc = "parse"
    /\ sret = <<>>

\* Query::parse(&request)?, before the pool is asked.
s_parse ==
    /\ spc = "parse"
    /\ \E ok \in BOOLEAN :
          /\ spc' = IF ok THEN "get" ELSE "return"
          /\ sret' = IF ok THEN sret ELSE <<"QueryError">>
    /\ SearchFrame

\* pool.get().await: the locked block of get() and, for a queued waiter, its
\* recv.
s_get ==
    /\ spc = "get"
    /\ get(SearchTask) \/ recv(SearchTask)

\* pool.get().await gave the handle: `client` is bound.
s_leased ==
    /\ spc = "get"
    /\ pc[SearchTask] = "holding"
    /\ spc' = "location"
    /\ UNCHANGED sret
    /\ SearchFrame

\* pool.get().await? gave Err(PoolClosed).
s_refused ==
    /\ spc = "get"
    /\ pc[SearchTask] = "PoolClosed"
    /\ spc' = "return"
    /\ sret' = <<"PoolError">>
    /\ SearchFrame

\* args.get("latitude")?, args.get("longitude")?, args.get("accuracy")?,
\* with the lease held.
s_location ==
    /\ spc = "location"
    /\ \E bad \in {"none", "latitude", "longitude", "accuracy"} :
          /\ spc' = IF bad = "none" THEN "query" ELSE "return"
          /\ sret' = IF bad = "none" THEN sret ELSE <<"QueryError">>
    /\ SearchFrame

\* args.get::<String>("query")?
s_query ==
    /\ spc = "query"
    /\ \E ok \in BOOLEAN :
          /\ spc' = IF ok THEN "search" ELSE "return"
          /\ sret' = IF ok THEN sret ELSE <<"QueryError">>
    /\ SearchFrame

\* client.search(..).await?
s_search ==
    /\ spc = "search"
    /\ \E ok \in BOOLEAN :
          /\ spc' = "return"
          /\ sret' = IF ok THEN <<"Ok">> ELSE <<"ScrapeError">>
    /\ SearchFrame

\* The function returns: its local `client`, if bound, is dropped.
s_drop ==
    /\ spc = "return"
    /\ drop_handle(SearchTask)

\* The other tasks use the pool as they like.
s_others ==
    \E t \in Tasks \ {SearchTask} :
        get(t) \/ recv(t) \/ drop_handle(t) \/ drop_waiter(t)

SearchNext ==
    \/ s_parse \/ s_get \/ s_leased \/ s_refused
    \/ s_location \/ s_query \/ s_search \/ s_drop
    \/ s_others
    \/ CloseStep

InitSearch ==
    /\ PoolInit /\ ReviewIdle /\ RetryIdle /\ ParseIdle
    /\ BuildIdle /\ LockIdle /\ SearchInit

SearchSpec == InitSearch /\ [][SearchNext]_vars

\* C34: on each of its return paths (the search succeeded, the search failed
\* with a ScrapeError, an argument was missing or malformed after the lease
\* was taken) the handler gives up its lease, and the Worker is then in the
\* free set or handed to the head waiter.
SearchReleases ==
    /\ [](spc = "return" /\ pc[SearchTask] = "holding" =>
             sret \in {<<r>> : r \in SearchReturns \ {"PoolError"}})
    /\ [][(spc = "return" /\ pc[SearchTask] = "holding"
              /\ pc'[SearchTask] # "holding") =>
             /\ obj'[SearchTask] = <<>>
             /\ IF waiting # <<>>
                THEN /\ HandsTo(Head(waiting), obj[SearchTask][1])
                     /\ waiting' = Tail(waiting)
                ELSE free' = Append(free, obj[SearchTask][1])]_vars

====
